---------------------------- MODULE Spec2Model ----------------------------
(***************************************************************************)
(* Model of homeassistant/components/tplink/entity.py:                     *)
(*   - async_refresh_after: the write-action wrapper,                      *)
(*   - CoordinatedTPLinkEntity: identity at construction, availability,    *)
(*   - _entities_for_device / _entities_for_device_and_its_children.       *)
(*                                                                         *)
(* Python strings are TLA+ strings (joined with \o); a MAC address is kept *)
(* as the sequence of its characters so that replace() and upper() are     *)
(* computed character by character.  Python's None is PyNone for strings,  *)
(* NoFeature for a Feature, NoDevice for a Device and NoDescription for an *)
(* EntityDescription.                                                      *)
(***************************************************************************)
EXTENDS Naturals, Sequences, FiniteSets, TLC

VARIABLES
    \* ---- async_refresh_after._async_wrap ----
    wrap_pc,            \* "idle" | "in_func" | "returned" | "raised"
    wrap_func,          \* func.__name__ of the wrapped action of the current call
    wrap_raised,        \* what the current call of _async_wrap raised (NoError if nothing)
    wrap_trace,         \* the events of the current call, in order
    refresh_requests,   \* calls of coordinator.async_request_refresh()
    reauth_started,     \* calls of config_entry.async_start_reauth()
    wrap_history,       \* outcome of func in every finished call, in order
    \* ---- CoordinatedTPLinkEntity availability ----
    last_update_success,\* coordinator.last_update_success
    _attr_available,     \* self._attr_available
    warnings,           \* number of _LOGGER.warning records
    hook_history,       \* outcome of every _async_update_attrs call, in order
    warn_history,       \* for every call, whether it logged a warning
    propagated,         \* an exception of the hook left _handle_coordinator_update
    \* ---- CoordinatedTPLinkEntity.__init__ ----
    ident_pc,           \* "new" | "constructed"
    ident_args,         \* the arguments of the constructor call
    entity,             \* the entity the constructor produced
    \* ---- _entities_for_device_and_its_children ----
    tree,               \* the root Device (with its children)
    request,            \* feature_type and entity_class of the last enumeration
    entities,           \* the list the last enumeration returned
    registry            \* (identifier, link kind) of every entity constructed on the tree

wrapVars  == <<wrap_pc, wrap_func, wrap_raised, wrap_trace, refresh_requests,
               reauth_started, wrap_history>>
availVars == <<last_update_success, _attr_available, warnings, hook_history,
               warn_history, propagated>>
identVars == <<ident_pc, ident_args, entity>>
enumVars  == <<tree, request, entities, registry>>
vars      == <<wrapVars, availVars, identVars, enumVars>>

\* Python's None where a string is expected; no Python string of the model equals it.
PyNone == "<None>"

DOMAIN_ == "tplink"
PRIMARY_STATE_ID == "state"

(***************************************************************************)
(* Bounds of the model.                                                    *)
(***************************************************************************)
\* Number of wrapped write actions called in one behaviour.
MaxActions == 3
\* Number of _async_update_attrs calls in one behaviour.
MaxUpdates == 5
\* Number of children of the root device.
MaxChildren == 2

(***************************************************************************)
(* The write-action wrapper: async_refresh_after                           *)
(***************************************************************************)
\* The exception classes func may raise and their base classes (kasa's hierarchy:
\* AuthenticationError, TimeoutError and DeviceError derive from KasaException);
\* ValueError stands for an exception that is no KasaException.
ExceptionClasses ==
    {"AuthenticationError", "TimeoutError", "DeviceError", "KasaException", "ValueError"}

ExceptionBases(cls) ==
    CASE cls = "AuthenticationError" -> {"AuthenticationError", "KasaException", "Exception"}
      [] cls = "TimeoutError"        -> {"TimeoutError", "KasaException", "Exception"}
      [] cls = "DeviceError"         -> {"DeviceError", "KasaException", "Exception"}
      [] cls = "KasaException"       -> {"KasaException", "Exception"}
      [] OTHER                       -> {cls, "Exception"}

isinstance(ex, cls) == cls \in ExceptionBases(ex.cls)

FuncNames == {"async_turn_on", "async_turn_off"}
ExcTexts  == {"denied", "no answer"}
Exceptions == [cls : ExceptionClasses, msg : ExcTexts]

NoError == [type |-> "none", translation_domain |-> PyNone, translation_key |-> PyNone,
            func |-> PyNone, exc |-> PyNone, reauth |-> FALSE]

\* raise HomeAssistantError(translation_domain=DOMAIN, translation_key=key,
\*     translation_placeholders={"func": func.__name__, "exc": str(ex)})
HomeAssistantError(key, func, ex, reauth) ==
    [type |-> "HomeAssistantError", translation_domain |-> DOMAIN_,
     translation_key |-> key, func |-> func, exc |-> ex.msg, reauth |-> reauth]

\* A mutant of WrapHandler: the except clauses in the wrong order, the general
\* KasaException clause first.
WrapHandlerGeneralFirst(func, ex) ==
    IF isinstance(ex, "KasaException")
    THEN HomeAssistantError("device_error", func, ex, FALSE)
    ELSE [NoError EXCEPT !.type = ex.cls, !.exc = ex.msg]

\* The except clauses of _async_wrap, tried in the order they are written: the error
\* the call ends with, and (field reauth) whether async_start_reauth was called first.
WrapHandler(func, ex) ==
    IF isinstance(ex, "AuthenticationError")
    THEN HomeAssistantError("device_authentication", func, ex, TRUE)
    ELSE IF isinstance(ex, "TimeoutError")
    THEN HomeAssistantError("device_timeout", func, ex, FALSE)
    ELSE IF isinstance(ex, "KasaException")
    THEN HomeAssistantError("device_error", func, ex, FALSE)
    ELSE [NoError EXCEPT !.type = ex.cls, !.exc = ex.msg]

\* A mutant of WrapAfterReturn: the refresh is requested in a finally clause, that
\* is on failure too.
WrapRefreshAlways(raised) == <<"request_refresh">>

\* What _async_wrap does once the try statement is left: the refresh request when
\* nothing was raised, nothing when the call is ending with an error.
WrapAfterReturn(raised) ==
    IF raised.type = "none" THEN <<"request_refresh">> ELSE <<>>

CountOf(seq, x) == Cardinality({i \in DOMAIN seq : seq[i] = x})

\* _async_wrap is called and awaits func(self, *args, **kwargs).
WrapCall(f) ==
    /\ wrap_pc \in {"idle", "returned", "raised"}
    /\ Len(wrap_history) < MaxActions
    /\ wrap_pc' = "in_func"
    /\ wrap_func' = f
    /\ wrap_raised' = NoError
    /\ wrap_trace' = <<"func_called">>
    /\ UNCHANGED <<refresh_requests, reauth_started, wrap_history>>
    /\ UNCHANGED <<availVars, identVars, enumVars>>

\* func returns: the try statement ends and the refresh is requested.
WrapFuncReturns ==
    /\ wrap_pc = "in_func"
    /\ LET after == WrapAfterReturn(NoError) IN
        /\ wrap_trace' = wrap_trace \o <<"func_returned">> \o after
        /\ refresh_requests' = refresh_requests + CountOf(after, "request_refresh")
    /\ wrap_pc' = "returned"
    /\ wrap_history' = Append(wrap_history, [cls |-> "none", msg |-> PyNone])
    /\ UNCHANGED <<wrap_func, wrap_raised, reauth_started>>
    /\ UNCHANGED <<availVars, identVars, enumVars>>

\* func raises ex: the matching except clause runs and the call ends with an error.
WrapFuncRaises(ex) ==
    /\ wrap_pc = "in_func"
    /\ LET err   == WrapHandler(wrap_func, ex)
           after == WrapAfterReturn(err) IN
        /\ wrap_raised' = err
        /\ wrap_trace' = wrap_trace \o <<"func_raised">>
                            \o (IF err.reauth THEN <<"start_reauth">> ELSE <<>>)
                            \o after \o <<"raise">>
        /\ reauth_started' = reauth_started + (IF err.reauth THEN 1 ELSE 0)
        /\ refresh_requests' = refresh_requests + CountOf(after, "request_refresh")
    /\ wrap_pc' = "raised"
    /\ wrap_history' = Append(wrap_history, ex)
    /\ UNCHANGED wrap_func
    /\ UNCHANGED <<availVars, identVars, enumVars>>

InitWrap ==
    /\ wrap_pc = "idle"
    /\ wrap_func = PyNone
    /\ wrap_raised = NoError
    /\ wrap_trace = <<>>
    /\ refresh_requests = 0
    /\ reauth_started = 0
    /\ wrap_history = <<>>


(***************************************************************************)
(* Availability: _async_call_update_attrs, _handle_coordinator_update and  *)
(* the available property                                                  *)
(***************************************************************************)
\* What a call of the abstract hook _async_update_attrs does: it returns, or it
\* raises an Exception.
HookOutcomes == {"returns", "raises"}

\* A mutant of _async_call_update_attrs: the else clause of the try statement is missing, so
\* a successful call does not make the entity available again.
_async_call_update_attrs_no_recovery(avail, outcome) ==
    IF outcome = "raises"
    THEN [available |-> FALSE, warned |-> avail, propagated |-> FALSE]
    ELSE [available |-> avail, warned |-> FALSE, propagated |-> FALSE]

\* A mutant of _async_call_update_attrs: the warning is logged on every failure, not only
\* when the entity was available.
_async_call_update_attrs_warn_always(avail, outcome) ==
    IF outcome = "raises"
    THEN [available |-> FALSE, warned |-> TRUE, propagated |-> FALSE]
    ELSE [available |-> TRUE, warned |-> FALSE, propagated |-> FALSE]

\* _async_call_update_attrs with self._attr_available = avail: the new flag, whether
\* a warning was logged, and whether the exception left the method.
_async_call_update_attrs(avail, outcome) ==
    IF outcome = "raises"
    THEN [available |-> FALSE, warned |-> avail, propagated |-> FALSE]
    ELSE [available |-> TRUE, warned |-> FALSE, propagated |-> FALSE]

\* The available property.
available == last_update_success /\ _attr_available

\* The coordinator ends a refresh cycle, with success or with failure.
CoordinatorRefresh(success) ==
    /\ last_update_success' = success
    /\ UNCHANGED <<_attr_available, warnings, hook_history, warn_history, propagated>>
    /\ UNCHANGED <<wrapVars, identVars, enumVars>>

\* _handle_coordinator_update: the coordinator calls the entity back, and the hook
\* returns or raises.
_handle_coordinator_update(outcome) ==
    /\ Len(hook_history) < MaxUpdates
    /\ LET r == _async_call_update_attrs(_attr_available, outcome) IN
        /\ _attr_available' = r.available
        /\ warnings' = warnings + (IF r.warned THEN 1 ELSE 0)
        /\ warn_history' = Append(warn_history, r.warned)
        /\ propagated' = (propagated \/ r.propagated)
    /\ hook_history' = Append(hook_history, outcome)
    /\ UNCHANGED last_update_success
    /\ UNCHANGED <<wrapVars, identVars, enumVars>>

\* Entity._attr_available is True until the first callback; the coordinator has
\* refreshed once, with success or not, when the entity is set up.
InitAvail ==
    /\ last_update_success \in BOOLEAN
    /\ _attr_available = TRUE
    /\ warnings = 0
    /\ hook_history = <<>>
    /\ warn_history = <<>>
    /\ propagated = FALSE


(***************************************************************************)
(* Devices, features and entity classes                                    *)
(***************************************************************************)
NoDevice == [device_id |-> PyNone]
NoFeature == [id |-> PyNone]
NoDescription == [key |-> PyNone]
NoEntity == [unique_id |-> PyNone]

\* Feature.Category and the fixed table FEATURE_CATEGORY_TO_ENTITY_CATEGORY.
FeatureCategories == {"Primary", "Config", "Info", "Debug", "Unset"}

MappedCategories == {"Config", "Info", "Debug"}

FEATURE_CATEGORY_TO_ENTITY_CATEGORY(category) ==
    CASE category = "Config" -> "CONFIG"
      [] category = "Info"   -> "DIAGNOSTIC"
      [] category = "Debug"  -> "DIAGNOSTIC"

DEVICETYPES_WITH_SPECIALIZED_PLATFORMS == {"Bulb", "LightStrip", "Dimmer"}

\* The entity class, by the two isinstance checks the constructor makes:
\* "light" is a LightEntity, "sensor" a SensorEntity, "other" neither.
EntityClasses == {"light", "sensor", "other"}

Device(id, alias, mac, type, iot, feats, kids) ==
    [device_id |-> id, alias |-> alias, mac |-> mac, device_type |-> type,
     is_iot |-> iot, model |-> "M-" \o type,
     hw_info |-> [sw_ver |-> "1.0." \o id, hw_ver |-> "2.0"],
     features |-> feats, children |-> kids]

Feature(id, name, type, category) ==
    [id |-> id, name |-> name, type |-> type, category |-> category]

(***************************************************************************)
(* Strings                                                                 *)
(***************************************************************************)
\* str.upper() on one character of the alphabet MAC addresses are written in.
UpperChar(c) ==
    CASE c = "a" -> "A"
      [] c = "b" -> "B"
      [] OTHER   -> c

\* s.replace(old, ""): the characters of s other than old, in order.
RECURSIVE Remove(_, _)
Remove(s, old) ==
    IF s = <<>> THEN <<>>
    ELSE IF Head(s) = old THEN Remove(Tail(s), old)
    ELSE <<Head(s)>> \o Remove(Tail(s), old)

\* s.upper()
RECURSIVE Upper(_)
Upper(s) == IF s = <<>> THEN <<>> ELSE <<UpperChar(Head(s))>> \o Upper(Tail(s))

\* The string whose characters are s.
RECURSIVE Str(_)
Str(s) == IF s = <<>> THEN "" ELSE Head(s) \o Str(Tail(s))

\* The collaborator legacy_device_id(device): an opaque stable key of the device.
legacy_device_id(device) == "legacy-" \o device.device_id

(***************************************************************************)
(* CoordinatedTPLinkEntity.__init__                                        *)
(***************************************************************************)
\* A mutant of RegistryAssignment: the isinstance(self, SensorEntity) check is
\* missing, so a sensor with a primary feature collapses into the parent too.
RegistryAssignmentNoSensorCheck(device, feature, parent, cls) ==
    IF parent # NoDevice /\ parent.device_type # "Hub"
    THEN IF feature = NoFeature \/ feature.category = "Primary"
         THEN [registry_device |-> parent, name |-> parent.alias,
               attr_name |-> device.alias]
         ELSE [registry_device |-> device,
               name |-> parent.alias \o " " \o device.alias, attr_name |-> PyNone]
    ELSE [registry_device |-> device, name |-> device.alias, attr_name |-> PyNone]

\* The registry device, the name of the registry device and self._attr_name.
RegistryAssignment(device, feature, parent, cls) ==
    IF parent # NoDevice /\ parent.device_type # "Hub"
    THEN IF cls # "sensor" /\ (feature = NoFeature \/ feature.category = "Primary")
         THEN [registry_device |-> parent, name |-> parent.alias,
               attr_name |-> device.alias]
         ELSE [registry_device |-> device,
               name |-> parent.alias \o " " \o device.alias, attr_name |-> PyNone]
    ELSE [registry_device |-> device, name |-> device.alias, attr_name |-> PyNone]

\* A mutant of DeviceInfoLink: the via_device link is set for every entity that has
\* a parent, and the connections are set as well when the entity keeps its device.
DeviceInfoLinkBoth(device, parent, registry_device) ==
    (IF parent # NoDevice
     THEN "via_device" :> <<DOMAIN_, parent.device_id>>
     ELSE "connections" :> {<<"mac", Str(device.mac)>>})
    @@ (IF registry_device = device
        THEN "connections" :> {<<"mac", Str(device.mac)>>}
        ELSE <<>>)

\* A mutant of DeviceInfoLink: the connections are set whenever the entity is filed
\* under its own device, a hub's child included.
DeviceInfoLinkOwnDevice(device, parent, registry_device) ==
    IF parent # NoDevice /\ parent # registry_device /\ parent.device_type # "Hub"
    THEN "via_device" :> <<DOMAIN_, parent.device_id>>
    ELSE "connections" :> {<<"mac", Str(device.mac)>>}

\* The key the constructor adds to self._attr_device_info: via_device or connections.
DeviceInfoLink(device, parent, registry_device) ==
    IF parent # NoDevice /\ parent # registry_device
    THEN "via_device" :> <<DOMAIN_, parent.device_id>>
    ELSE "connections" :> {<<"mac", Str(device.mac)>>}

\* A mutant of _get_unique_id: the MAC is not upper-cased and the primary state
\* feature gets the suffix every feature gets.
_get_unique_id_plain(device, feature, cls, description) ==
    IF feature # NoFeature
    THEN legacy_device_id(device) \o "_" \o feature.id
    ELSE IF cls = "light"
    THEN IF device.device_type = "Dimmer" /\ device.is_iot
         THEN legacy_device_id(device)
         ELSE Str(Remove(device.mac, ":"))
    ELSE IF description # NoDescription
    THEN legacy_device_id(device) \o "_" \o description.key
    ELSE PyNone

\* _get_unique_id: the function ends without a return statement, that is it returns
\* None, when there is no feature, the entity is no light and has no description.
_get_unique_id(device, feature, cls, description) ==
    IF feature # NoFeature
    THEN IF feature.id = PRIMARY_STATE_ID
         THEN legacy_device_id(device)
         ELSE legacy_device_id(device) \o "_" \o feature.id
    ELSE IF cls = "light"
    THEN IF device.device_type = "Dimmer" /\ device.is_iot
         THEN legacy_device_id(device)
         ELSE Str(Upper(Remove(device.mac, ":")))
    ELSE IF description # NoDescription
    THEN legacy_device_id(device) \o "_" \o description.key
    ELSE PyNone

\* _category_for_feature: PyNone is "no category".
_category_for_feature(feature) ==
    IF feature = NoFeature \/ feature.category = "Primary"
    THEN PyNone
    ELSE IF feature.category \in MappedCategories
    THEN FEATURE_CATEGORY_TO_ENTITY_CATEGORY(feature.category)
    ELSE "DIAGNOSTIC"

\* entity_class(device, coordinator, feature=feature, parent=parent): the entity the
\* constructor leaves, for an entity class cls whose entity_description is description.
NewEntity(device, feature, parent, cls, description) ==
    LET ra == RegistryAssignment(device, feature, parent, cls)
        registry_device == ra.registry_device
    IN  [device |-> device,
         feature |-> feature,
         parent |-> parent,
         cls |-> cls,
         entity_description |-> description,
         attr_name |-> ra.attr_name,
         device_info |->
            [identifiers |-> {<<DOMAIN_, registry_device.device_id>>},
             manufacturer |-> "TP-Link",
             model |-> registry_device.model,
             name |-> ra.name,
             sw_version |-> registry_device.hw_info.sw_ver,
             hw_version |-> registry_device.hw_info.hw_ver]
            @@ DeviceInfoLink(device, parent, registry_device),
         unique_id |-> _get_unique_id(device, feature, cls, description),
         entity_category |-> _category_for_feature(feature)]

\* The inputs of the identity specification.
MacAddresses == { <<"a", "a", ":", "0", "1">>, <<"A", "B", ":", "0", "b">> }

IdentDevices ==
    { Device("child", "Fan", mac, type, iot, <<>>, <<>>) :
        mac \in MacAddresses, type \in {"Plug", "Bulb", "Dimmer"}, iot \in BOOLEAN }

IdentParents ==
    { NoDevice }
    \cup { Device("parent", "Hall", <<"c", "c", ":", "0", "0">>, type, TRUE, <<>>, <<>>) :
            type \in {"Hub", "Strip", "Dimmer"} }

IdentFeatures ==
    { NoFeature }
    \cup { Feature(id, name, "Switch", category) :
            id \in {PRIMARY_STATE_ID, "led"}, name \in {"State", "LED"},
            category \in FeatureCategories }

Descriptions == { NoDescription, [key |-> "current_consumption"] }

\* The constructor runs on the arguments drawn by InitIdent.
Construct ==
    /\ ident_pc = "new"
    /\ entity' = NewEntity(ident_args.device, ident_args.feature, ident_args.parent,
                           ident_args.cls, ident_args.description)
    /\ ident_pc' = "constructed"
    /\ UNCHANGED ident_args
    /\ UNCHANGED <<wrapVars, availVars, enumVars>>

InitIdent ==
    /\ ident_pc = "new"
    /\ ident_args \in [device : IdentDevices, feature : IdentFeatures,
                       parent : IdentParents, cls : EntityClasses,
                       description : Descriptions]
    /\ entity = NoEntity


(***************************************************************************)
(* _entities_for_device and _entities_for_device_and_its_children          *)
(***************************************************************************)
FeatureTypes == {"Switch", "Sensor"}

\* The condition of the list comprehension of _entities_for_device.
Qualifies(device, feat, feature_type) ==
    /\ feat.type = feature_type
    /\ \/ feat.category # "Primary"
       \/ device.device_type \notin DEVICETYPES_WITH_SPECIALIZED_PLATFORMS

\* The entity class builds its description from the feature: key = feature.id.
DescriptionOf(feat) == [key |-> feat.id]

\* The list comprehension of _entities_for_device over feats, a part of
\* device.features.values(), in order.
RECURSIVE EntitiesOfFeatures(_, _, _, _, _)
EntitiesOfFeatures(device, feats, feature_type, entity_class, parent) ==
    IF feats = <<>> THEN <<>>
    ELSE (IF Qualifies(device, Head(feats), feature_type)
          THEN <<NewEntity(device, Head(feats), parent, entity_class,
                           DescriptionOf(Head(feats)))>>
          ELSE <<>>)
         \o EntitiesOfFeatures(device, Tail(feats), feature_type, entity_class, parent)

_entities_for_device(device, feature_type, entity_class, parent) ==
    EntitiesOfFeatures(device, device.features, feature_type, entity_class, parent)

\* The loop over device.children: entities.extend(...) for each child, in order.
RECURSIVE EntitiesOfChildren(_, _, _, _)
EntitiesOfChildren(device, children, feature_type, entity_class) ==
    IF children = <<>> THEN <<>>
    ELSE _entities_for_device(Head(children), feature_type, entity_class, device)
         \o EntitiesOfChildren(device, Tail(children), feature_type, entity_class)

\* A mutant of _entities_for_device_and_its_children: the root's entities come
\* first and the children's are built without the parent.
_entities_for_device_and_its_children_root_first(device, feature_type, entity_class) ==
    _entities_for_device(device, feature_type, entity_class, NoDevice)
    \o EntitiesOfChildren(NoDevice, device.children, feature_type, entity_class)

_entities_for_device_and_its_children(device, feature_type, entity_class) ==
    (IF device.children # <<>>
     THEN EntitiesOfChildren(device, device.children, feature_type, entity_class)
     ELSE <<>>)
    \o _entities_for_device(device, feature_type, entity_class, NoDevice)

\* The registry-device record an entity files: its identifier with the link it sets.
LinkKeys == {"connections", "via_device"}

Links(e) ==
    { <<id[2], k>> : id \in e.device_info.identifiers,
                     k \in (DOMAIN e.device_info) \cap LinkKeys }

LinksOf(es) == UNION { Links(es[i]) : i \in DOMAIN es }

\* The inputs of the enumerator specification: a root with up to MaxChildren
\* children, every device one of a few kinds of device with its features.
FeatState == Feature(PRIMARY_STATE_ID, "State", "Switch", "Primary")
FeatLed   == Feature("led", "LED", "Switch", "Config")
FeatRssi  == Feature("rssi", "RSSI", "Sensor", "Debug")
FeatTemp  == Feature("temperature", "Temperature", "Sensor", "Primary")

ChildKinds ==
    { [type |-> "Plug",   features |-> <<FeatState, FeatLed, FeatRssi>>],
      [type |-> "Bulb",   features |-> <<FeatLed, FeatState>>],
      [type |-> "Dimmer", features |-> <<FeatState, FeatTemp, FeatRssi>>],
      [type |-> "Sensor", features |-> <<FeatTemp, FeatRssi>>] }

RootKinds ==
    { [type |-> "Hub",        features |-> <<FeatRssi, FeatLed>>],
      [type |-> "Strip",      features |-> <<FeatLed, FeatRssi>>],
      [type |-> "WallSwitch", features |-> <<FeatState, FeatLed>>],
      [type |-> "LightStrip", features |-> <<FeatRssi, FeatState>>] }

Child(i, kind) ==
    Device("child" \o ToString(i), "Fan", <<"a", "a", ":", "0", "1">>,
           kind.type, TRUE, kind.features, <<>>)

Trees ==
    UNION { { Device("root", "Hall", <<"c", "c", ":", "0", "0">>, rk.type, TRUE,
                     rk.features, [i \in 1..n |-> Child(i, kinds[i])]) :
                rk \in RootKinds, kinds \in [1..n -> ChildKinds] } :
            n \in 0..MaxChildren }

NoRequest == [op |-> "none", feature_type |-> PyNone, entity_class |-> PyNone]

\* A platform's setup enumerates the features of one type of the tree.
Enumerate(feature_type, entity_class) ==
    /\ request' = [op |-> "enumerate", feature_type |-> feature_type,
                   entity_class |-> entity_class]
    /\ entities' = _entities_for_device_and_its_children(tree, feature_type, entity_class)
    /\ registry' = registry \cup LinksOf(entities')
    /\ UNCHANGED tree
    /\ UNCHANGED <<wrapVars, availVars, identVars>>

\* A platform's setup constructs an entity without a feature on the root.
ConstructForRoot(entity_class, description) ==
    /\ request' = [op |-> "construct", feature_type |-> PyNone,
                   entity_class |-> entity_class]
    /\ entities' = <<NewEntity(tree, NoFeature, NoDevice, entity_class, description)>>
    /\ registry' = registry \cup LinksOf(entities')
    /\ UNCHANGED tree
    /\ UNCHANGED <<wrapVars, availVars, identVars>>

\* A platform's setup constructs an entity without a feature on a child.
ConstructForChild(i, entity_class, description) ==
    /\ i \in DOMAIN tree.children
    /\ request' = [op |-> "construct", feature_type |-> PyNone,
                   entity_class |-> entity_class]
    /\ entities' = <<NewEntity(tree.children[i], NoFeature, tree, entity_class,
                               description)>>
    /\ registry' = registry \cup LinksOf(entities')
    /\ UNCHANGED tree
    /\ UNCHANGED <<wrapVars, availVars, identVars>>

InitEnum ==
    /\ tree \in Trees
    /\ request = NoRequest
    /\ entities = <<>>
    /\ registry = {}

(***************************************************************************)
(* Specifications: one per component, the other components at rest         *)
(***************************************************************************)
RestWrap  == InitWrap
RestAvail == InitAvail /\ last_update_success = TRUE
RestIdent == ident_pc = "new" /\ entity = NoEntity
                /\ ident_args = [device |-> NoDevice, feature |-> NoFeature,
                                 parent |-> NoDevice, cls |-> "other",
                                 description |-> NoDescription]
RestEnum  == tree = NoDevice /\ request = NoRequest /\ entities = <<>> /\ registry = {}

NextWrapper ==
    \/ \E f \in FuncNames : WrapCall(f)
    \/ WrapFuncReturns
    \/ \E ex \in Exceptions : WrapFuncRaises(ex)

InitWrapper == InitWrap /\ RestAvail /\ RestIdent /\ RestEnum

SpecWrapper == InitWrapper /\ [][NextWrapper]_vars

NextAvailability ==
    \/ \E success \in BOOLEAN : CoordinatorRefresh(success)
    \/ \E outcome \in HookOutcomes : _handle_coordinator_update(outcome)

InitAvailability == InitAvail /\ RestWrap /\ RestIdent /\ RestEnum

SpecAvailability == InitAvailability /\ [][NextAvailability]_vars

NextIdentity == Construct

InitIdentity == InitIdent /\ RestWrap /\ RestAvail /\ RestEnum

SpecIdentity == InitIdentity /\ [][NextIdentity]_vars

NextEnumerator ==
    \/ \E ft \in FeatureTypes, cls \in EntityClasses : Enumerate(ft, cls)
    \/ \E cls \in EntityClasses, d \in Descriptions : ConstructForRoot(cls, d)
    \/ \E i \in 1..MaxChildren, cls \in EntityClasses, d \in Descriptions :
            ConstructForChild(i, cls, d)

InitEnumerator == InitEnum /\ RestWrap /\ RestAvail /\ RestIdent

SpecEnumerator == InitEnumerator /\ [][NextEnumerator]_vars

(***************************************************************************)
(* Properties of the write-action wrapper (SpecWrapper)                    *)
(***************************************************************************)
Last(seq) == seq[Len(seq)]

KasaClasses == {"AuthenticationError", "TimeoutError", "DeviceError", "KasaException"}

\* C1: a wrapped action that completes without raising is followed by exactly one
\* refresh request, issued after the action completed (none while the action is
\* running); an action that raises a device-library error is followed by no refresh
\* request and the call raises a HomeAssistantError whose placeholders carry the
\* wrapped function's name and the text of the original exception.
C1_RefreshOnlyAfterSuccess ==
    /\ wrap_pc = "in_func" => wrap_trace = <<"func_called">>
    /\ wrap_pc = "returned" =>
        /\ wrap_trace = <<"func_called", "func_returned", "request_refresh">>
        /\ wrap_raised = NoError
    /\ (wrap_pc = "raised" /\ Last(wrap_history).cls \in KasaClasses) =>
        /\ \A i \in DOMAIN wrap_trace : wrap_trace[i] # "request_refresh"
        /\ wrap_raised.type = "HomeAssistantError"
        /\ wrap_raised.func = wrap_func
        /\ wrap_raised.exc = Last(wrap_history).msg
    /\ refresh_requests =
         Cardinality({i \in DOMAIN wrap_history : wrap_history[i].cls = "none"})

\* C1 witness: a call that failed with a timeout after an earlier call that succeeded.
C1_Witness ==
    /\ wrap_pc = "raised"
    /\ Len(wrap_history) = 2
    /\ wrap_history[1].cls = "none"
    /\ wrap_history[2].cls = "TimeoutError"
    /\ refresh_requests = 1
    /\ wrap_raised.func = "async_turn_off"

\* C2: a failure is classified by the class of the exception into exactly one of
\* device_authentication, device_timeout and device_error; the re-authentication
\* flow is started exactly once, before the error is raised, for an authentication
\* failure, and never for a timeout, another device error or a success.
C2_ClassificationAndReauth ==
    /\ (wrap_pc = "raised" /\ Last(wrap_history).cls \in KasaClasses) =>
        LET cls == Last(wrap_history).cls IN
        /\ wrap_raised.translation_key =
             (CASE cls = "AuthenticationError" -> "device_authentication"
                [] cls = "TimeoutError"        -> "device_timeout"
                [] OTHER                       -> "device_error")
        /\ wrap_raised.translation_domain = DOMAIN_
        /\ cls = "AuthenticationError" =>
             wrap_trace = <<"func_called", "func_raised", "start_reauth", "raise">>
        /\ cls # "AuthenticationError" =>
             wrap_trace = <<"func_called", "func_raised", "raise">>
    /\ wrap_pc \in {"in_func", "returned"} =>
        \A i \in DOMAIN wrap_trace : wrap_trace[i] # "start_reauth"
    /\ reauth_started =
         Cardinality({i \in DOMAIN wrap_history :
                        wrap_history[i].cls = "AuthenticationError"})

\* C2 witness: an authentication failure after a timeout; one reauth in all.
C2_Witness ==
    /\ wrap_pc = "raised"
    /\ Len(wrap_history) = 2
    /\ wrap_history[1].cls = "TimeoutError"
    /\ wrap_history[2].cls = "AuthenticationError"
    /\ reauth_started = 1
    /\ wrap_raised.translation_key = "device_authentication"

(***************************************************************************)
(* Properties of the availability state machine (SpecAvailability)         *)
(***************************************************************************)
\* C3: the availability the entity reports is: the coordinator's last refresh
\* succeeded, and the most recent _async_update_attrs call did not raise (or there
\* was no call yet). It is false whenever last_update_success is false, and one
\* successful call after failures makes the entity's own flag true again.
C3_EffectiveAvailability ==
    /\ available <=>
         (last_update_success
            /\ (hook_history = <<>> \/ Last(hook_history) = "returns"))
    /\ ~last_update_success => ~available
    /\ (hook_history # <<>> /\ Last(hook_history) = "returns") => _attr_available

\* C3 witness: a successful call after a streak of two failures, coordinator fine.
C3_Witness ==
    /\ Len(hook_history) = 3
    /\ hook_history = <<"raises", "raises", "returns">>
    /\ last_update_success
    /\ available

\* The calls that start a failure streak: a raising call that is the first call or
\* follows a call that returned.
StreakStarts(h) ==
    {i \in DOMAIN h : h[i] = "raises" /\ (i = 1 \/ h[i - 1] = "returns")}

\* C4: a warning is logged exactly by the first failing call of every streak of
\* consecutive failing calls (the calls that raise while the entity's own flag is
\* still true): the number of warnings is the number of streaks, and the hook's
\* exception never leaves the refresh callback.
C4_OneWarningPerStreak ==
    /\ Len(warn_history) = Len(hook_history)
    /\ \A i \in DOMAIN hook_history : warn_history[i] <=> i \in StreakStarts(hook_history)
    /\ warnings = Cardinality(StreakStarts(hook_history))
    /\ ~propagated

\* C4 witness: two streaks (one of two failures) and two warnings.
C4_Witness ==
    /\ hook_history = <<"raises", "raises", "returns", "raises">>
    /\ warnings = 2
    /\ ~_attr_available

(***************************************************************************)
(* Properties of the constructor (SpecIdentity)                            *)
(***************************************************************************)
Constructed == ident_pc = "constructed"

ChildOfNonHub ==
    /\ Constructed
    /\ ident_args.parent # NoDevice
    /\ ident_args.parent.device_type # "Hub"

FiledUnder(d) == entity.device_info.identifiers = {<<DOMAIN_, d.device_id>>}

HasLink(k) == k \in DOMAIN entity.device_info

FiledUnderParent ==
    /\ FiledUnder(ident_args.parent)
    /\ entity.device_info.name = ident_args.parent.alias

FiledUnderChildViaParent ==
    /\ FiledUnder(ident_args.device)
    /\ entity.device_info.name = ident_args.parent.alias \o " " \o ident_args.device.alias
    /\ HasLink("via_device")
    /\ entity.device_info["via_device"] = <<DOMAIN_, ident_args.parent.device_id>>

PrimaryOrAbsent ==
    ident_args.feature = NoFeature \/ ident_args.feature.category = "Primary"

\* C5 as stated: for a child of a non-Hub parent, whatever the entity class, an
\* absent or Primary feature files the entity under the parent with the parent's
\* alias, and a Config, Info or Debug feature files it under the child, named
\* "<parent alias> <child alias>", with a via_device link to the parent.
C5_AsStated ==
    ChildOfNonHub =>
        /\ PrimaryOrAbsent => FiledUnderParent
        /\ (~PrimaryOrAbsent /\ ident_args.feature.category \in MappedCategories)
              => FiledUnderChildViaParent

\* C5 amended: the same, but the entity is filed under the parent only when its
\* class is no sensor class; an entity of a sensor class is filed under the child,
\* with the prefixed name and the via_device link, whatever its feature.
C5_RegistryAssignment ==
    ChildOfNonHub =>
        /\ (ident_args.cls # "sensor" /\ PrimaryOrAbsent) => FiledUnderParent
        /\ (ident_args.cls = "sensor"
              \/ (~PrimaryOrAbsent /\ ident_args.feature.category \in MappedCategories))
              => FiledUnderChildViaParent

\* C5 witness: a sensor entity with a Primary feature on a strip's child, filed
\* under the child.
C5_Witness ==
    /\ ChildOfNonHub
    /\ ident_args.cls = "sensor"
    /\ ident_args.feature # NoFeature
    /\ ident_args.feature.category = "Primary"
    /\ ident_args.parent.device_type = "Strip"
    /\ FiledUnder(ident_args.device)

RootOrHubChild ==
    /\ Constructed
    /\ (ident_args.parent = NoDevice \/ ident_args.parent.device_type = "Hub")

FiledUnderOwnDevice ==
    /\ FiledUnder(ident_args.device)
    /\ entity.device_info.name = ident_args.device.alias

HasMacConnection ==
    /\ HasLink("connections")
    /\ entity.device_info["connections"] = {<<"mac", Str(ident_args.device.mac)>>}

\* C6 as stated: with no parent, or with a Hub parent, the entity is filed under
\* its own device (its device_id, its alias) and the device's MAC is attached as a
\* connection.
C6_AsStated ==
    RootOrHubChild => (FiledUnderOwnDevice /\ HasMacConnection)

\* C6 amended: with no parent, or with a Hub parent, the entity is filed under its
\* own device; the MAC is attached as a connection only when there is no parent,
\* and with a Hub parent the record has a via_device link to the hub instead and
\* no connections.
C6_OwnDevice ==
    RootOrHubChild =>
        /\ FiledUnderOwnDevice
        /\ ident_args.parent = NoDevice =>
              (HasMacConnection /\ ~HasLink("via_device"))
        /\ ident_args.parent # NoDevice =>
              /\ HasLink("via_device")
              /\ entity.device_info["via_device"] = <<DOMAIN_, ident_args.parent.device_id>>
              /\ ~HasLink("connections")

\* C6 witness: an entity of a hub's child, with the via_device link to the hub.
C6_Witness ==
    /\ Constructed
    /\ ident_args.parent # NoDevice
    /\ ident_args.parent.device_type = "Hub"
    /\ HasLink("via_device")
    /\ FiledUnder(ident_args.device)

\* The MAC with ':' removed and upper-cased, character by character.
NormalizedMac(mac) ==
    LET kept == SelectSeq(mac, LAMBDA c : c # ":")
    IN  Str([i \in DOMAIN kept |-> UpperChar(kept[i])])

\* C8: the unique_id follows the legacy-compatibility policy: with the primary
\* state feature it is legacy_device_id(device) whatever the feature's name and
\* category; with another feature it is legacy_device_id(device) + "_" + feature.id;
\* for a light without feature it is the MAC without ':' in upper case, except for
\* a Dimmer of the Iot family, where it is legacy_device_id(device).
C8_UniqueIdPolicy ==
    Constructed =>
        LET d == ident_args.device
            f == ident_args.feature
        IN  /\ (f # NoFeature /\ f.id = PRIMARY_STATE_ID) =>
                  entity.unique_id = legacy_device_id(d)
            /\ (f # NoFeature /\ f.id # PRIMARY_STATE_ID) =>
                  entity.unique_id = legacy_device_id(d) \o "_" \o f.id
            /\ (f = NoFeature /\ ident_args.cls = "light") =>
                  entity.unique_id =
                     (IF d.device_type = "Dimmer" /\ d.is_iot
                      THEN legacy_device_id(d)
                      ELSE NormalizedMac(d.mac))

\* C8 witness: a light without feature on a bulb whose MAC is written in lower
\* case with a colon.
C8_Witness ==
    /\ Constructed
    /\ ident_args.feature = NoFeature
    /\ ident_args.cls = "light"
    /\ ident_args.device.device_type = "Bulb"
    /\ ident_args.device.mac = <<"a", "a", ":", "0", "1">>
    /\ entity.unique_id = "AA01"

\* C10: every entity whose construction completes has a defined unique_id (a
\* string, not None), whatever the entity class, feature and description.
C10_UniqueIdDefined ==
    Constructed => entity.unique_id # PyNone

(***************************************************************************)
(* Properties of the enumeration (SpecEnumerator)                          *)
(***************************************************************************)
\* C7: the registry-device record of every entity has exactly one of connections
\* and via_device; and over all the entities constructed on the tree, no registry
\* device identifier is filed with connections by one entity and with via_device
\* by another.
C7_ExactlyOneLink ==
    /\ \A i \in DOMAIN entities :
          ("connections" \in DOMAIN entities[i].device_info)
             # ("via_device" \in DOMAIN entities[i].device_info)
    /\ \A p \in registry, q \in registry : p[1] = q[1] => p[2] = q[2]

\* C7 witness: an entity of a child filed under the root, on a tree where another
\* child's entity is filed under the child with via_device.
C7_Witness ==
    /\ \E i \in DOMAIN entities :
          /\ entities[i].device.device_id # "root"
          /\ entities[i].device_info.identifiers = {<<DOMAIN_, "root">>}
    /\ <<"root", "connections">> \in registry
    /\ \E p \in registry : p[2] = "via_device"

\* The devices in the order of the enumeration: the children, then the root.
DevicesInOrder ==
    [i \in 1..(Len(tree.children) + 1) |->
        IF i <= Len(tree.children) THEN tree.children[i] ELSE tree]

\* (i, j): feature j of device i is of the requested type, and is not a Primary
\* feature of a Bulb, LightStrip or Dimmer.
WantedPairs ==
    UNION { { <<i, j>> : j \in { k \in DOMAIN DevicesInOrder[i].features :
                LET d == DevicesInOrder[i]
                    f == d.features[k]
                IN  /\ f.type = request.feature_type
                    /\ ~(f.category = "Primary"
                           /\ d.device_type \in {"Bulb", "LightStrip", "Dimmer"}) } } :
            i \in DOMAIN DevicesInOrder }

\* The place of a wanted pair in the list: device order first, feature order second.
Rank(p) ==
    1 + Cardinality({q \in WantedPairs : q[1] < p[1] \/ (q[1] = p[1] /\ q[2] < p[2])})

\* C9: the enumeration returns, for each child in order and then for the root, one
\* entity per feature (in the order of the mapping) of the requested type that is
\* not a Primary feature of a Bulb, LightStrip or Dimmer; the children's entities
\* are built with parent = root and the root's with no parent; nothing is skipped
\* and nothing is duplicated.
C9_EnumerationList ==
    request.op = "enumerate" =>
        /\ Len(entities) = Cardinality(WantedPairs)
        /\ \A p \in WantedPairs :
             LET e == entities[Rank(p)]
                 d == DevicesInOrder[p[1]]
             IN  /\ e.device = d
                 /\ e.feature = d.features[p[2]]
                 /\ e.cls = request.entity_class
                 /\ e.parent = (IF p[1] <= Len(tree.children) THEN tree ELSE NoDevice)

\* C9 witness: switches enumerated on a tree with a plug and a bulb as children:
\* the bulb's Primary state is left out, the root's entity comes last.
C9_Witness ==
    /\ request.op = "enumerate"
    /\ request.feature_type = "Switch"
    /\ Len(tree.children) = 2
    /\ tree.children[1].device_type = "Plug"
    /\ tree.children[2].device_type = "Bulb"
    /\ tree.device_type = "Strip"
    /\ Len(entities) = 4
    /\ entities[4].device = tree
    /\ entities[3].feature = FeatLed

=============================================================================
